---- MODULE Spec2Model ----
(***************************************************************************)
(* A model of rr-contentful-migration's helpers: the formatting helper     *)
(* (src/src/helpers/formatters.ts): formatEntry, localizeField, stripTags, *)
(* htmlToRichText, processElement and the node constructors; and the       *)
(* fetch helper (src/src/helpers/dataFetcher.ts): dataFetcher; and the     *)
(* client's methods createOrUpdateEntry, deleteEntry and deleteAsset       *)
(* (src/unnamed/part_003).                                                 *)
(*                                                                         *)
(* A string is a sequence of one-character strings.  An HTML source text   *)
(* is a sequence of lexemes: a character of text, an opening tag with its  *)
(* attributes, a closing tag, or a comment.                                *)
(***************************************************************************)
EXTENDS Integers, Sequences, FiniteSets, TLC

VARIABLES
    pc,                 \* position of the call in progress
    key,                \* localizeField's key argument
    field,              \* localizeField's field argument (a JS value)
    html,               \* htmlToRichText's argument
    cleanedHtml,        \* formatters.ts:48
    body,               \* the child nodes of <body> in the loaded tree
    idx,                \* position of the .each() loop over body's children
    richTextDocument,   \* formatters.ts:51
    result,             \* what the call returned
    caller,             \* the function the environment called
    converterCalls,     \* how many times htmlToRichText was entered
    content,            \* formatEntry's argument, as Object.entries lists it
    entryIdx,           \* position of the .map() over the entries
    mapped,             \* the [key, localized] pairs made so far
    formatted,          \* what formatEntry returned
    retries,            \* dataFetcher's retries argument
    attempt,            \* dataFetcher.ts:8
    events,             \* the fetches and backoff waits of the call, in order
    environment,        \* the entries and assets the backend holds
    calls,              \* the client calls in progress, with their locals
    requests            \* the requests made to the backend, in order

entryVars == <<content, entryIdx, mapped, formatted>>

fetchVars == <<retries, attempt, events>>

clientVars == <<environment, calls, requests>>

\* What dataFetcher leaves alone.
formatterVars == <<key, field, html, cleanedHtml, body, idx, richTextDocument,
                   caller, converterCalls, entryVars, clientVars>>

\* What the client's methods leave alone.
helperVars == <<pc, key, field, html, cleanedHtml, body, idx, richTextDocument,
                result, caller, converterCalls, entryVars, fetchVars>>

vars == <<pc, key, field, html, cleanedHtml, body, idx, richTextDocument,
          result, caller, converterCalls, entryVars, fetchVars, clientVars>>

-----------------------------------------------------------------------------
(* Bounds of the model. *)

MaxLen == 5

MaxFieldLen == 3

MaxEntries == 2

MaxRetries == 5

-----------------------------------------------------------------------------
(* Lexemes of an HTML source text. *)

Ch(c) == [k |-> "char", c |-> c]

Open(t, a) == [k |-> "open", tag |-> t, attribs |-> a]

Close(t) == [k |-> "close", tag |-> t]

Comment == [k |-> "comment"]

NoAttribs == <<>>

Href(v) == [href |-> v]

Src(v) == [src |-> v]

-----------------------------------------------------------------------------
(* String helpers: String.prototype.replace(/(\n|\t)/g, ""), trim(),       *)
(* toLowerCase().                                                          *)

StripChars == {"\n", "\t"}

WhiteSpace == {" ", "\n", "\t"}

RemoveNewlinesAndTabs(s) == SelectSeq(s, LAMBDA c : c \notin StripChars)

RECURSIVE TrimStart(_)
TrimStart(s) ==
    IF s # <<>> /\ Head(s) \in WhiteSpace THEN TrimStart(Tail(s)) ELSE s

RECURSIVE TrimEnd(_)
TrimEnd(s) ==
    IF s # <<>> /\ s[Len(s)] \in WhiteSpace
    THEN TrimEnd(SubSeq(s, 1, Len(s) - 1))
    ELSE s

Trim(s) == TrimEnd(TrimStart(s))

ToLowerCase(t) ==
    CASE t = "P"   -> "p"
      [] t = "H2"  -> "h2"
      [] t = "UL"  -> "ul"
      [] t = "DIV" -> "div"
      [] OTHER     -> t

-----------------------------------------------------------------------------
(* stripTags: every newline and tab of the source text is deleted, those   *)
(* of attribute values included; nothing else changes.                     *)

RECURSIVE RemoveFirst(_)
RemoveFirst(s) ==
    IF s = <<>> THEN <<>>
    ELSE IF Head(s) \in StripChars THEN Tail(s)
    ELSE <<Head(s)>> \o RemoveFirst(Tail(s))

\* stripTags without the g flag: only the first newline or tab is deleted.
stripTagsFirstOnly(h) ==
    LET hits == {i \in 1..Len(h) :
                    \/ h[i].k = "char" /\ h[i].c \in StripChars
                    \/ /\ h[i].k = "open"
                       /\ \E n \in DOMAIN h[i].attribs :
                              \E m \in 1..Len(h[i].attribs[n]) :
                                  h[i].attribs[n][m] \in StripChars}
    IN  IF hits = {} THEN h
        ELSE LET i == CHOOSE j \in hits : \A m \in hits : j <= m
             IN  IF h[i].k = "char"
                 THEN SubSeq(h, 1, i - 1) \o SubSeq(h, i + 1, Len(h))
                 ELSE [h EXCEPT ![i].attribs =
                          [n \in DOMAIN @ |-> RemoveFirst(@[n])]]

stripTags(h) ==
    LET kept == SelectSeq(h, LAMBDA l : ~(l.k = "char" /\ l.c \in StripChars))
        clean(l) ==
            IF l.k = "open"
            THEN [l EXCEPT !.attribs =
                     [n \in DOMAIN l.attribs |-> RemoveNewlinesAndTabs(l.attribs[n])]]
            ELSE l
    IN  [i \in 1..Len(kept) |-> clean(kept[i])]

-----------------------------------------------------------------------------
(* cheerio.load: the tree construction of the HTML parser in <body>, for   *)
(* the tags of this model.  A frame of the stack of open elements is an    *)
(* element whose end has not been seen; frame 1 is <body>.  Modelled: tag  *)
(* names are lower-cased; img and hr are void; adjacent characters form    *)
(* one text node; an opening block tag ends an open p; an opening li ends  *)
(* an open li of the same list; an opening heading ends the heading it     *)
(* stands in; an opening a ends an open a; an end tag closes the nearest   *)
(* open element of its name and what was opened inside it, within the      *)
(* scope the parser gives the tag; the end of a or b across an open block  *)
(* moves the block out and reopens the element inside it; an end tag that  *)
(* closes nothing is dropped, except </p>, which yields an empty p; the    *)
(* end of the text closes every open element.  Not modelled: the reopening *)
(* of a b or an a that the end of an enclosing element closed, and the     *)
(* elements the parser moves to <head> or out of tables.                   *)

TextNode(d) == [type |-> "text", data |-> d]

CommentNode == [type |-> "comment"]

Element(n, a, c) == [type |-> "tag", name |-> n, attribs |-> a, children |-> c]

Frame(n, a) == [name |-> n, attribs |-> a, children |-> <<>>]

VoidTags == {"img", "hr"}

HeadingTags == {"h1", "h2", "h3", "h4", "h5", "h6"}

FormattingTags == {"a", "b"}

\* The tags of this model that the parser calls special.
SpecialTags ==
    {"p", "ul", "ol", "li", "blockquote", "div", "hr", "img"} \cup HeadingTags

PClosingTags == {"p", "ul", "ol", "li", "blockquote", "div", "hr"} \cup HeadingTags

\* The elements at which the search for an open li stops.
LiScopeTags == SpecialTags \ {"p", "div", "li"}

AppendChild(frame, node) == [frame EXCEPT !.children = Append(@, node)]

AppendText(frame, c) ==
    LET n == Len(frame.children)
    IN  IF n > 0 /\ frame.children[n].type = "text"
        THEN [frame EXCEPT !.children[n].data = Append(@, c)]
        ELSE AppendChild(frame, TextNode(<<c>>))

OnTop(stack, node) ==
    [stack EXCEPT ![Len(stack)] = AppendChild(@, node)]

PopOne(stack) ==
    LET n   == Len(stack)
        top == stack[n]
    IN  Append(SubSeq(stack, 1, n - 2),
               AppendChild(stack[n - 1],
                           Element(top.name, top.attribs, top.children)))

RECURSIVE PopTo(_, _)
PopTo(stack, depth) ==
    IF Len(stack) <= depth THEN stack ELSE PopTo(PopOne(stack), depth)

HasOpen(stack, names) == \E i \in 2..Len(stack) : stack[i].name \in names

LastOpen(stack, names) ==
    CHOOSE i \in 2..Len(stack) :
        /\ stack[i].name \in names
        /\ \A j \in (i + 1)..Len(stack) : stack[j].name \notin names

\* The nearest open element of one of the names is open with none of the
\* barriers opened inside it.
InScope(stack, names, barriers) ==
    /\ HasOpen(stack, names)
    /\ \A j \in (LastOpen(stack, names) + 1)..Len(stack) :
           stack[j].name \notin barriers

CloseOpen(stack, names) ==
    IF HasOpen(stack, names) THEN PopTo(stack, LastOpen(stack, names) - 1)
    ELSE stack

CloseInScope(stack, names, barriers) ==
    IF InScope(stack, names, barriers)
    THEN PopTo(stack, LastOpen(stack, names) - 1)
    ELSE stack

\* The end of a formatting element.  With no block open inside it the
\* element and what it holds are closed.  Otherwise the element is closed
\* before the first such block, the block becomes its sibling, and a copy
\* of the element is opened inside the block around what the block held;
\* the copy is then ended in the same way.
RECURSIVE AdoptionAgency(_, _, _)
AdoptionAgency(stack, name, rounds) ==
    IF rounds = 0 \/ ~HasOpen(stack, {name}) THEN stack
    ELSE LET i      == LastOpen(stack, {name})
             blocks == {j \in (i + 1)..Len(stack) : stack[j].name \in SpecialTags}
         IN  IF blocks = {} THEN PopTo(stack, i - 1)
             ELSE LET j      == CHOOSE m \in blocks : \A o \in blocks : m <= o
                      closed == PopTo(SubSeq(stack, 1, j - 1), i - 1)
                      block  == [stack[j] EXCEPT !.children = <<>>]
                      copy   == [name |-> name, attribs |-> stack[i].attribs,
                                 children |-> stack[j].children]
                  IN  AdoptionAgency(
                          closed \o <<block, copy>> \o SubSeq(stack, j + 1, Len(stack)),
                          name, rounds - 1)

StartTag(stack, tag, attribs) ==
    LET name == ToLowerCase(tag)
        s1 == IF name = "li" THEN CloseInScope(stack, {"li"}, LiScopeTags)
              ELSE stack
        s2 == IF name \in PClosingTags THEN CloseOpen(s1, {"p"}) ELSE s1
        s3 == IF name \in HeadingTags /\ s2[Len(s2)].name \in HeadingTags
              THEN PopOne(s2) ELSE s2
        s4 == IF name = "a" THEN CloseOpen(AdoptionAgency(s3, "a", 8), {"a"})
              ELSE s3
    IN  IF name \in VoidTags
        THEN OnTop(s4, Element(name, attribs, <<>>))
        ELSE Append(s4, Frame(name, attribs))

EndTag(stack, tag) ==
    LET name == ToLowerCase(tag)
    IN  CASE name = "p" ->
                IF HasOpen(stack, {"p"}) THEN CloseOpen(stack, {"p"})
                ELSE OnTop(stack, Element("p", NoAttribs, <<>>))
          [] name = "li" -> CloseInScope(stack, {"li"}, {"ul", "ol"})
          [] name \in HeadingTags -> CloseOpen(stack, HeadingTags)
          [] name \in FormattingTags -> AdoptionAgency(stack, name, 8)
          [] name \in SpecialTags \ VoidTags -> CloseOpen(stack, {name})
          [] name \in VoidTags -> stack
          [] OTHER -> CloseInScope(stack, {name}, SpecialTags)

InsertLexeme(stack, l) ==
    CASE l.k = "char"    -> [stack EXCEPT ![Len(stack)] = AppendText(@, l.c)]
      [] l.k = "comment" -> OnTop(stack, CommentNode)
      [] l.k = "open"    -> StartTag(stack, l.tag, l.attribs)
      [] l.k = "close"   -> EndTag(stack, l.tag)

RECURSIVE BuildTree(_, _)
BuildTree(h, stack) ==
    IF h = <<>> THEN PopTo(stack, 1)
    ELSE BuildTree(Tail(h), InsertLexeme(stack, Head(h)))

\* The child nodes of <body> after cheerio.load(h).
Load(h) == BuildTree(h, <<Frame("body", NoAttribs)>>)[1].children

\* .children(): the element children, in order.
Children(nodes) == SelectSeq(nodes, LAMBDA n : n.type = "tag")

\* .children("li")
ChildrenNamed(nodes, name) ==
    SelectSeq(nodes, LAMBDA n : n.type = "tag" /\ n.name = name)

\* .attr(name): the attribute's value, or undefined (here: absent).
HasAttr(element, name) == name \in DOMAIN element.attribs

\* $(element).attr(name) || ""
AttrOrEmpty(element, name) ==
    IF HasAttr(element, name) /\ element.attribs[name] # <<>>
    THEN element.attribs[name]
    ELSE <<>>

-----------------------------------------------------------------------------
(* The rich-text nodes and their constructors (formatters.ts:143-260).     *)
(* {} and [] are both the empty function.                                  *)

EmptyObject == <<>>

createTextNode(text, marks) ==
    [nodeType |-> "text", value |-> text, marks |-> marks, data |-> EmptyObject]

\* The body of the .each() callback of processTextContent, over the child
\* nodes from left to right.
RECURSIVE EachTextNode(_)
EachTextNode(nodes) ==
    IF nodes = <<>> THEN <<>>
    ELSE LET node == Head(nodes)
             rest == EachTextNode(Tail(nodes))
         IN  IF node.type = "text"
             THEN LET text == Trim(node.data)
                  IN  IF text # <<>>
                      THEN <<createTextNode(text, <<>>)>> \o rest
                      ELSE rest
             ELSE rest

\* processTextContent descending into the child elements.
RECURSIVE EachTextNodeDeep(_)
EachTextNodeDeep(nodes) ==
    IF nodes = <<>> THEN <<>>
    ELSE LET node == Head(nodes)
             rest == EachTextNodeDeep(Tail(nodes))
         IN  IF node.type = "text"
             THEN LET text == Trim(node.data)
                  IN  IF text # <<>>
                      THEN <<createTextNode(text, <<>>)>> \o rest
                      ELSE rest
             ELSE IF node.type = "tag"
             THEN EachTextNodeDeep(node.children) \o rest
             ELSE rest

processTextContentDeep(element) == EachTextNodeDeep(element.children)

processTextContent(element) == EachTextNode(element.children)

createParagraphNode(element) ==
    [nodeType |-> "paragraph", data |-> EmptyObject,
     content |-> processTextContent(element)]

createHeadingNode(element, headingType) ==
    [nodeType |-> headingType, data |-> EmptyObject,
     content |-> processTextContent(element)]

createListItemNode(element) ==
    [nodeType |-> "list-item", data |-> EmptyObject,
     content |-> << [nodeType |-> "paragraph", data |-> EmptyObject,
                     content |-> processTextContent(element)] >>]

\* .find("li"): the li descendants, in document order.
RECURSIVE Find(_, _)
Find(nodes, name) ==
    IF nodes = <<>> THEN <<>>
    ELSE LET node == Head(nodes)
         IN  IF node.type = "tag"
             THEN (IF node.name = name THEN <<node>> ELSE <<>>)
                      \o Find(node.children, name) \o Find(Tail(nodes), name)
             ELSE Find(Tail(nodes), name)

\* createListNode with .find("li") in place of .children("li").
createListNodeFind(element, listType) ==
    LET items == Find(element.children, "li")
    IN  [nodeType |-> listType, data |-> EmptyObject,
         content |-> [i \in 1..Len(items) |-> createListItemNode(items[i])]]

createListNode(element, listType) ==
    LET items == ChildrenNamed(element.children, "li")
    IN  [nodeType |-> listType, data |-> EmptyObject,
         content |-> [i \in 1..Len(items) |-> createListItemNode(items[i])]]

createBlockquoteNode(element) ==
    [nodeType |-> "blockquote", data |-> EmptyObject,
     content |-> << [nodeType |-> "paragraph", data |-> EmptyObject,
                     content |-> processTextContent(element)] >>]

\* createHyperlinkNode without the || "" of formatters.ts:218: an absent
\* href is left as undefined.
createHyperlinkNodeRawHref(element) ==
    [nodeType |-> "hyperlink",
     data |-> IF HasAttr(element, "href")
              THEN [uri |-> element.attribs["href"]]
              ELSE EmptyObject,
     content |-> processTextContent(element)]

createHyperlinkNode(element) ==
    [nodeType |-> "hyperlink",
     data |-> [uri |-> AttrOrEmpty(element, "href")],
     content |-> processTextContent(element)]

createHyperlinkInBlockNode(element) ==
    [nodeType |-> "paragraph", data |-> EmptyObject,
     content |-> <<createHyperlinkNode(element)>>]

\* createEmbeddedAssetNode reading the href attribute.
createEmbeddedAssetNodeHref(element) ==
    [nodeType |-> "embedded-asset-block",
     data |-> [target |-> [sys |-> [id |-> AttrOrEmpty(element, "href"),
                                    type |-> "Link",
                                    linkType |-> "Asset"]]],
     content |-> <<>>]

createEmbeddedAssetNode(element) ==
    [nodeType |-> "embedded-asset-block",
     data |-> [target |-> [sys |-> [id |-> AttrOrEmpty(element, "src"),
                                    type |-> "Link",
                                    linkType |-> "Asset"]]],
     content |-> <<>>]

\* processElement with the case "h6" left out of the switch.
processElementNoH6(element) ==
    LET tagName == ToLowerCase(element.name)
    IN  CASE tagName = "p"  -> createParagraphNode(element)
          [] tagName = "h1" -> createHeadingNode(element, "heading-1")
          [] tagName = "h2" -> createHeadingNode(element, "heading-2")
          [] tagName = "h3" -> createHeadingNode(element, "heading-3")
          [] tagName = "h4" -> createHeadingNode(element, "heading-4")
          [] tagName = "h5" -> createHeadingNode(element, "heading-5")
          [] tagName = "ul" -> createListNode(element, "unordered-list")
          [] tagName = "ol" -> createListNode(element, "ordered-list")
          [] tagName = "li" -> createListItemNode(element)
          [] tagName = "blockquote" -> createBlockquoteNode(element)
          [] tagName = "hr" ->
                [nodeType |-> "hr", data |-> EmptyObject, content |-> <<>>]
          [] tagName = "a"   -> createHyperlinkInBlockNode(element)
          [] tagName = "img" -> createEmbeddedAssetNode(element)
          [] OTHER -> createParagraphNode(element)

processElement(element) ==
    LET tagName == ToLowerCase(element.name)
    IN  CASE tagName = "p"  -> createParagraphNode(element)
          [] tagName = "h1" -> createHeadingNode(element, "heading-1")
          [] tagName = "h2" -> createHeadingNode(element, "heading-2")
          [] tagName = "h3" -> createHeadingNode(element, "heading-3")
          [] tagName = "h4" -> createHeadingNode(element, "heading-4")
          [] tagName = "h5" -> createHeadingNode(element, "heading-5")
          [] tagName = "h6" -> createHeadingNode(element, "heading-6")
          [] tagName = "ul" -> createListNode(element, "unordered-list")
          [] tagName = "ol" -> createListNode(element, "ordered-list")
          [] tagName = "li" -> createListItemNode(element)
          [] tagName = "blockquote" -> createBlockquoteNode(element)
          [] tagName = "hr" ->
                [nodeType |-> "hr", data |-> EmptyObject, content |-> <<>>]
          [] tagName = "a"   -> createHyperlinkInBlockNode(element)
          [] tagName = "img" -> createEmbeddedAssetNode(element)
          [] OTHER -> createParagraphNode(element)

EmptyDocument ==
    [nodeType |-> "document", data |-> EmptyObject, content |-> <<>>]

EmptyParagraph ==
    [nodeType |-> "paragraph", content |-> <<>>, data |-> EmptyObject]

-----------------------------------------------------------------------------
(* JavaScript values, as far as localizeField tells them apart.            *)

Str(s) == [t |-> "string", s |-> s]

Num(n) == [t |-> "number", n |-> n]

Bool(b) == [t |-> "boolean", b |-> b]

Null == [t |-> "null"]

Undefined == [t |-> "undefined"]

Obj(props) == [t |-> "object", props |-> props]

\* What reading a property of null or undefined raises.
TypeError == [t |-> "TypeError"]

\* field.rendered, without the optional chaining.
RenderedUnchained(v) ==
    IF v.t \in {"null", "undefined"} THEN TypeError
    ELSE IF v.t = "object" /\ "rendered" \in DOMAIN v.props
    THEN v.props.rendered
    ELSE Undefined

\* field?.rendered
Rendered(v) ==
    IF v.t = "object" /\ "rendered" \in DOMAIN v.props
    THEN v.props.rendered
    ELSE Undefined

\* The left operand of || is taken when it is truthy.
Truthy(v) ==
    CASE v.t = "undefined" -> FALSE
      [] v.t = "null"      -> FALSE
      [] v.t = "boolean"   -> v.b
      [] v.t = "number"    -> v.n # 0
      [] v.t = "string"    -> v.s # <<>>
      [] OTHER             -> TRUE

Digit(d) == Ch(<<"0", "1", "2", "3", "4", "5", "6", "7", "8", "9">>[d + 1])

RECURSIVE Digits(_)
Digits(n) == IF n < 10 THEN <<Digit(n)>> ELSE Append(Digits(n \div 10), Digit(n % 10))

\* String(field) of a string or an integer number.
String(v) ==
    IF v.t = "string" THEN v.s
    ELSE IF v.n < 0 THEN <<Ch("-")>> \o Digits(-v.n) ELSE Digits(v.n)

\* The characters of a source text that the pattern /<[^>]+>/ reads: a tag
\* or a comment is "<", at least one character that is not ">", and ">".
Chars(l) ==
    CASE l.k = "char"    -> <<l.c>>
      [] l.k = "open"    -> <<"<", l.tag, ">">>
      [] l.k = "close"   -> <<"<", "/", l.tag, ">">>
      [] l.k = "comment" -> <<"<", "!", "-", "-", "-", "-", ">">>

RECURSIVE Flatten(_)
Flatten(h) == IF h = <<>> THEN <<>> ELSE Chars(Head(h)) \o Flatten(Tail(h))

\* /<[^>]+>/g.test(s)
HasTagPattern(h) ==
    LET c == Flatten(h)
    IN  \E i \in 1..Len(c) : \E j \in (i + 2)..Len(c) :
            /\ c[i] = "<"
            /\ c[j] = ">"
            /\ \A m \in (i + 1)..(j - 1) : c[m] # ">"

IsStructuredDocument(v) ==
    /\ v.t = "object"
    /\ "nodeType" \in DOMAIN v.props
    /\ v.props.nodeType = "document"

-----------------------------------------------------------------------------
(* htmlToRichText as a function of its argument (formatters.ts:47-73).     *)

HtmlToRichText(h) ==
    LET elements == Children(Load(stripTags(h)))
        blocks   == [i \in 1..Len(elements) |-> processElement(elements[i])]
    IN  [nodeType |-> "document", data |-> EmptyObject,
         content |-> IF Len(blocks) = 0 THEN <<EmptyParagraph>> ELSE blocks]

-----------------------------------------------------------------------------
(* The source texts the calls are made with.                               *)

TagNames ==
    {"p", "h1", "h2", "h3", "h4", "h5", "h6", "ul", "ol", "li", "blockquote",
     "hr", "a", "img", "div", "b", "span", "h7", "P", "H2", "UL", "DIV"}

AttrValues == {<<>>, <<"u">>, <<"\t", "u", "\n", "v">>}

Openers(t) ==
    CASE t = "a"   -> {Open(t, NoAttribs)} \cup {Open(t, Href(v)) : v \in AttrValues}
      [] t = "img" -> {Open(t, NoAttribs)} \cup {Open(t, Src(v)) : v \in AttrValues}
      [] OTHER     -> {Open(t, NoAttribs)}

\* One element of every tag, empty or holding one character.
DispatchInputs ==
    LET openers == UNION {Openers(t) : t \in TagNames}
    IN  {<<o>> : o \in openers} \cup {<<o, Ch("x")>> : o \in openers}

\* Lists, their items and what else may stand in them.
ListAlphabet ==
    {Open("ul", NoAttribs), Open("ol", NoAttribs), Open("li", NoAttribs),
     Open("span", NoAttribs), Open("img", NoAttribs), Ch("x"), Ch("y")}

\* Paragraphs of text with white space.
TextAlphabet ==
    {Open("p", NoAttribs), Open("img", NoAttribs),
     Ch("x"), Ch(" "), Ch("\n"), Ch("\t")}

\* Sequences of top-level blocks, anchors and images.
BlockAlphabet ==
    {Open("h2", NoAttribs), Open("a", Href(<<"u">>)), Open("img", Src(<<"u">>)),
     Close("a"), Comment, Ch("x")}

Text(chars) == [i \in 1..Len(chars) |-> Ch(chars[i])]

\* The spec's own examples, and two texts with nested markup.
ExampleInputs ==
    { <<Open("p", NoAttribs)>> \o Text(<<"H", "e", "l", "l", "o">>) \o <<Close("p")>>,
      <<Open("h2", NoAttribs)>> \o Text(<<"T", "i", "t", "l", "e">>) \o <<Close("h2")>>,
      <<Open("ul", NoAttribs), Open("li", NoAttribs), Ch("A"), Close("li"),
        Open("li", NoAttribs), Ch("B"), Close("li"), Close("ul")>>,
      <<Open("a", Href(<<"h", ":", "/", "/", "x", ".", "c", "o", "m">>))>>
          \o Text(<<"l", "i", "n", "k">>) \o <<Close("a")>>,
      <<Open("img", Src(<<"h", ":", "/", "/", "x", ".", "c", "o", "m", "/", "a">>))>>,
      <<Open("p", NoAttribs)>> \o Text(<<" ", " ", "\n", "\t", "H", "i", " ", " ">>)
          \o <<Close("p")>>,
      <<Open("div", NoAttribs)>> \o Text(<<"o", "r", "p", "h", "a", "n">>)
          \o <<Close("div")>>,
      <<Open("p", NoAttribs)>> \o Text(<<" ", "x", " ">>)
          \o <<Open("b", NoAttribs), Ch("y"), Close("b")>>
          \o Text(<<"\t", "z", " ", "w", "\n">>) \o <<Close("p")>>,
      <<Open("ol", NoAttribs), Ch("t"), Open("li", NoAttribs), Ch("A"),
        Open("b", NoAttribs), Ch("y"), Close("b"), Close("li"),
        Open("b", NoAttribs), Open("li", NoAttribs), Ch("B"), Close("li"),
        Close("b"), Open("li", NoAttribs), Ch("C"), Close("li"), Close("ol")>>,
      <<Open("p", NoAttribs), Ch("s"), Open("a", Href(<<"u">>)), Ch("x"),
        Close("a"), Close("p"), Open("a", NoAttribs), Ch("y"), Close("a"),
        Open("img", Src(<<>>)), Open("hr", NoAttribs)>> }

\* The sequences over S of length at most n.
SeqsUpTo(S, n) == UNION {[1..m -> S] : m \in 0..n}

-----------------------------------------------------------------------------
(* htmlToRichText, statement by statement.                                 *)

\* formatters.ts:48
StripTags ==
    /\ pc = "strip"
    /\ cleanedHtml' = stripTags(html)
    /\ pc' = "load"
    /\ UNCHANGED <<key, field, html, body, idx, richTextDocument, result,
                   caller, converterCalls>>
    /\ UNCHANGED entryVars
    /\ UNCHANGED fetchVars
    /\ UNCHANGED clientVars

\* formatters.ts:49-55
LoadDocument ==
    /\ pc = "load"
    /\ body' = Load(cleanedHtml)
    /\ richTextDocument' = EmptyDocument
    /\ idx' = 1
    /\ pc' = "each"
    /\ UNCHANGED <<key, field, html, cleanedHtml, result, caller, converterCalls>>
    /\ UNCHANGED entryVars
    /\ UNCHANGED fetchVars
    /\ UNCHANGED clientVars

\* EachChild with unshift in place of push.
EachChildUnshift ==
    /\ pc = "each"
    /\ idx <= Len(Children(body))
    /\ LET node == processElement(Children(body)[idx])
       IN  richTextDocument' =
               [richTextDocument EXCEPT !.content = <<node>> \o @]
    /\ idx' = idx + 1
    /\ UNCHANGED <<pc, key, field, html, cleanedHtml, body, result, caller,
                   converterCalls>>
    /\ UNCHANGED entryVars
    /\ UNCHANGED fetchVars
    /\ UNCHANGED clientVars

\* formatters.ts:57-62, one turn of the .each() loop
EachChild ==
    /\ pc = "each"
    /\ idx <= Len(Children(body))
    /\ LET node == processElement(Children(body)[idx])
       IN  richTextDocument' =
               [richTextDocument EXCEPT !.content = Append(@, node)]
    /\ idx' = idx + 1
    /\ UNCHANGED <<pc, key, field, html, cleanedHtml, body, result, caller,
                   converterCalls>>
    /\ UNCHANGED entryVars
    /\ UNCHANGED fetchVars
    /\ UNCHANGED clientVars

\* ReturnDocument without the empty-document guard of formatters.ts:64-70.
ReturnDocumentNoGuard ==
    /\ pc = "each"
    /\ idx > Len(Children(body))
    /\ result' = IF caller # "htmlToRichText"
                 THEN [en_US |-> Obj(richTextDocument)]
                 ELSE richTextDocument
    /\ pc' = "done"
    /\ UNCHANGED <<key, field, html, cleanedHtml, body, idx, richTextDocument,
                   caller, converterCalls>>
    /\ UNCHANGED entryVars
    /\ UNCHANGED fetchVars
    /\ UNCHANGED clientVars

\* formatters.ts:64-72, and the return into the caller (formatters.ts:28, 34)
ReturnDocument ==
    /\ pc = "each"
    /\ idx > Len(Children(body))
    /\ LET doc == IF Len(richTextDocument.content) = 0
                  THEN [richTextDocument EXCEPT !.content = <<EmptyParagraph>>]
                  ELSE richTextDocument
       IN  /\ richTextDocument' = doc
           /\ result' = IF caller # "htmlToRichText"
                        THEN [en_US |-> Obj(doc)]
                        ELSE doc
    /\ pc' = "done"
    /\ UNCHANGED <<key, field, html, cleanedHtml, body, idx, caller,
                   converterCalls>>
    /\ UNCHANGED entryVars
    /\ UNCHANGED fetchVars
    /\ UNCHANGED clientVars

NextConverter == StripTags \/ LoadDocument \/ EachChild \/ ReturnDocument

\* No client has been initialized.
NoClient ==
    /\ environment = {}
    /\ calls = <<>>
    /\ requests = <<>>

\* No call of dataFetcher is in progress.
NoFetch ==
    /\ retries = 0
    /\ attempt = 0
    /\ events = <<>>

\* No call of formatEntry is in progress.
NoEntry ==
    /\ content = <<>>
    /\ entryIdx = 0
    /\ mapped = <<>>
    /\ formatted = Undefined

Init ==
    /\ pc = "strip"
    /\ caller = "htmlToRichText"
    /\ key = ""
    /\ field = Undefined
    /\ \/ html \in DispatchInputs
       \/ html \in ExampleInputs
       \/ \E m \in 0..MaxLen : html \in [1..m -> ListAlphabet]
       \/ \E m \in 0..MaxLen : html \in [1..m -> TextAlphabet]
       \/ \E m \in 0..MaxLen : html \in [1..m -> BlockAlphabet]
    /\ cleanedHtml = <<>>
    /\ body = <<>>
    /\ idx = 0
    /\ richTextDocument = EmptyDocument
    /\ result = Undefined
    /\ converterCalls = 1
    /\ NoEntry
    /\ NoFetch
    /\ NoClient

Next == NextConverter

Spec == Init /\ [][Next]_vars

-----------------------------------------------------------------------------
(* localizeField (formatters.ts:25-43).                                    *)

\* ConvertsField without the test of the key.
ConvertsFieldAnyKey(k, f) ==
    /\ f.t = "string"
    /\ HasTagPattern(f.s)

\* formatters.ts:26-27
ConvertsField(k, f) ==
    /\ k # "title"
    /\ f.t = "string"
    /\ HasTagPattern(f.s)

\* ConvertsRendered without the test of the pattern: every .rendered string
\* is converted.
ConvertsRenderedAnyString(k, f) ==
    /\ k # "title"
    /\ Rendered(f).t = "string"

\* formatters.ts:26, 30-33
ConvertsRendered(k, f) ==
    /\ k # "title"
    /\ Rendered(f).t = "string"
    /\ HasTagPattern(Rendered(f).s)

\* PlainLocaleValue coercing strings only: a number goes down the
\* field?.rendered || field branch.
PlainLocaleValueStringsOnly(f) ==
    IF f.t = "string" THEN Str(String(f))
    ELSE IF Truthy(Rendered(f)) THEN Rendered(f)
    ELSE f

\* formatters.ts:38-41
PlainLocaleValue(f) ==
    IF f.t \in {"string", "number"} THEN Str(String(f))
    ELSE IF Truthy(Rendered(f)) THEN Rendered(f)
    ELSE f

\* The read of .rendered is reached, and raises.
Raises(k, f) ==
    /\ ~ConvertsField(k, f)
    /\ Rendered(f) = TypeError

LocalizeField ==
    /\ pc = "localize"
    /\ IF ConvertsField(key, field)
       THEN /\ html' = field.s
            /\ converterCalls' = converterCalls + 1
            /\ pc' = "strip"
            /\ UNCHANGED result
       ELSE IF Raises(key, field)
       THEN /\ result' = TypeError
            /\ pc' = "threw"
            /\ UNCHANGED <<html, converterCalls>>
       ELSE IF ConvertsRendered(key, field)
       THEN /\ html' = Rendered(field).s
            /\ converterCalls' = converterCalls + 1
            /\ pc' = "strip"
            /\ UNCHANGED result
       ELSE /\ result' = [en_US |-> PlainLocaleValue(field)]
            /\ pc' = "done"
            /\ UNCHANGED <<html, converterCalls>>
    /\ UNCHANGED <<key, field, cleanedHtml, body, idx, richTextDocument, caller>>
    /\ UNCHANGED entryVars
    /\ UNCHANGED fetchVars
    /\ UNCHANGED clientVars

\* The values localizeField is called with.
Keys == {"title", "body"}

LocalizeAlphabet ==
    {Open("p", NoAttribs), Close("p"), Ch("<"), Ch(">"), Ch("x"), Ch(" ")}

\* A "<" that a letter follows would begin a tag: such a text is written
\* with the tag's lexeme instead.
WellFormedText(h) ==
    \A i \in 1..(Len(h) - 1) : h[i] = Ch("<") => h[i + 1] # Ch("x")

FieldStrings == {h \in SeqsUpTo(LocalizeAlphabet, MaxFieldLen) : WellFormedText(h)}

\* A document already in the target format.
StoredDocument == Obj(HtmlToRichText(<<Open("p", NoAttribs), Ch("x")>>))

RenderedValues ==
    {Str(h) : h \in FieldStrings}
        \cup {Num(0), Num(7), Null, Undefined, Bool(FALSE), StoredDocument}

FieldValues ==
    {Str(h) : h \in FieldStrings}
        \cup {Num(0), Num(7), Num(42), Num(-3), Null, Undefined,
              Bool(TRUE), Bool(FALSE)}
        \cup {Obj([rendered |-> v]) : v \in RenderedValues}
        \cup {Obj([id |-> Num(1)]), Obj(<<>>), StoredDocument}

InitLocalize ==
    /\ pc = "localize"
    /\ caller = "localizeField"
    /\ key \in Keys
    /\ field \in FieldValues
    /\ html = <<>>
    /\ cleanedHtml = <<>>
    /\ body = <<>>
    /\ idx = 0
    /\ richTextDocument = EmptyDocument
    /\ result = Undefined
    /\ converterCalls = 0
    /\ NoEntry
    /\ NoFetch
    /\ NoClient

NextLocalize == LocalizeField \/ NextConverter

SpecLocalize == InitLocalize /\ [][NextLocalize]_vars

\* Calls of either function.
InitAny == Init \/ InitLocalize

SpecAny == InitAny /\ [][NextLocalize]_vars

-----------------------------------------------------------------------------
(* formatEntry (formatters.ts:262-269).  An object is the sequence of its  *)
(* <<key, value>> pairs in iteration order; the keys are names, which      *)
(* iterate in insertion order.                                             *)

\* localizeField as a function of its arguments (formatters.ts:25-43).
localizeField(k, f) ==
    IF ConvertsField(k, f) THEN [en_US |-> Obj(HtmlToRichText(f.s))]
    ELSE IF ConvertsRendered(k, f)
    THEN [en_US |-> Obj(HtmlToRichText(Rendered(f).s))]
    ELSE [en_US |-> PlainLocaleValue(f)]

\* An object of the caller's, held at address a.
Owned(props, a) == [t |-> "object", props |-> props, ref |-> a]

\* Setting a property: a key already present keeps its place.
Put(obj, k, v) ==
    IF \E i \in 1..Len(obj) : obj[i][1] = k
    THEN [i \in 1..Len(obj) |-> IF obj[i][1] = k THEN <<k, v>> ELSE obj[i]]
    ELSE Append(obj, <<k, v>>)

\* Object.fromEntries
RECURSIVE FromEntries(_)
FromEntries(pairs) ==
    IF pairs = <<>> THEN <<>>
    ELSE LET n == Len(pairs)
         IN  Put(FromEntries(SubSeq(pairs, 1, n - 1)), pairs[n][1], pairs[n][2])

\* formatters.ts:264-265, the callback of .map() is entered for an entry
MapEntry ==
    /\ pc = "map"
    /\ entryIdx <= Len(content)
    /\ key' = content[entryIdx][1]
    /\ field' = content[entryIdx][2]
    /\ pc' = "localize"
    /\ UNCHANGED <<html, cleanedHtml, body, idx, richTextDocument, result,
                   caller, converterCalls, entryVars>>
    /\ UNCHANGED fetchVars
    /\ UNCHANGED clientVars

\* CollectEntry leaving out an entry whose locale value is null or undefined.
CollectEntrySkipEmpty ==
    /\ pc = "done"
    /\ caller = "formatEntry"
    /\ mapped' = IF result.en_US.t \in {"null", "undefined"}
                 THEN mapped
                 ELSE Append(mapped, <<key, result>>)
    /\ entryIdx' = entryIdx + 1
    /\ pc' = "map"
    /\ UNCHANGED <<key, field, html, cleanedHtml, body, idx, richTextDocument,
                   result, caller, converterCalls, content, formatted>>
    /\ UNCHANGED fetchVars
    /\ UNCHANGED clientVars

\* formatters.ts:264-267, the callback returns [key, localizeField(key, value)]
CollectEntry ==
    /\ pc = "done"
    /\ caller = "formatEntry"
    /\ mapped' = Append(mapped, <<key, result>>)
    /\ entryIdx' = entryIdx + 1
    /\ pc' = "map"
    /\ UNCHANGED <<key, field, html, cleanedHtml, body, idx, richTextDocument,
                   result, caller, converterCalls, content, formatted>>
    /\ UNCHANGED fetchVars
    /\ UNCHANGED clientVars

\* formatters.ts:262-269, Object.fromEntries and the return
ReturnEntry ==
    /\ pc = "map"
    /\ entryIdx > Len(content)
    /\ formatted' = [fields |-> FromEntries(mapped)]
    /\ pc' = "returned"
    /\ UNCHANGED <<key, field, html, cleanedHtml, body, idx, richTextDocument,
                   result, caller, converterCalls, content, entryIdx, mapped>>
    /\ UNCHANGED fetchVars
    /\ UNCHANGED clientVars

\* The entries formatEntry is called with.
EntryKeys == {"title", "body", "slug"}

EntryValues ==
    { Str(<<Open("p", NoAttribs), Ch("x"), Close("p")>>), Str(<<Ch("x")>>),
      Num(7), Null,
      Owned([rendered |-> Str(<<Open("p", NoAttribs), Ch("x")>>)], 1),
      Owned([rendered |-> Str(<<>>)], 2),
      Owned([id |-> Num(1)], 3),
      Owned(StoredDocument.props, 4) }

InitFormat ==
    /\ pc = "map"
    /\ caller = "formatEntry"
    /\ \E m \in 0..MaxEntries :
           \E ks \in [1..m -> EntryKeys] : \E vs \in [1..m -> EntryValues] :
               /\ \A i, j \in 1..m : ks[i] = ks[j] => i = j
               /\ content = [i \in 1..m |-> <<ks[i], vs[i]>>]
    /\ entryIdx = 1
    /\ mapped = <<>>
    /\ formatted = Undefined
    /\ key = ""
    /\ field = Undefined
    /\ html = <<>>
    /\ cleanedHtml = <<>>
    /\ body = <<>>
    /\ idx = 0
    /\ richTextDocument = EmptyDocument
    /\ result = Undefined
    /\ converterCalls = 0
    /\ NoFetch
    /\ NoClient

NextFormat == MapEntry \/ CollectEntry \/ ReturnEntry \/ NextLocalize

SpecFormat == InitFormat /\ [][NextFormat]_vars

-----------------------------------------------------------------------------
(* dataFetcher (src/src/helpers/dataFetcher.ts).  What fetch yields on an  *)
(* attempt is the environment's choice: a response, or a rejection.  A     *)
(* message is a sequence of its parts.                                     *)

Url == "u"

\* new Error(message)
Error(message) == [t |-> "Error", name |-> "Error", message |-> message]

\* What JSON.parse raises.
SyntaxError ==
    [t |-> "Error", name |-> "SyntaxError", message |-> <<"Unexpected token">>]

\* JSON.parse(text), for the bodies the responses carry.
JSONParse(text) ==
    CASE text = "{\"a\":1}" -> Obj([a |-> Num(1)])
      [] text = "null"      -> Null
      [] OTHER              -> SyntaxError

Bodies == {"{\"a\":1}", "null", "<html>"}

Response(status, text) == [kind |-> "response", status |-> status, text |-> text]

Rejection(reason) == [kind |-> "rejected", reason |-> reason]

\* response.ok
Ok(response) == response.status \in 200..299

Responses ==
    {Response(200, b) : b \in Bodies}
        \cup {Response(st, "") : st \in {404, 500, 503}}

\* dataFetcher.ts:16
TimedOut == Error(<<"Request timed out">>)

\* The errors fetch rejects with, and the timeout that wins the race.
RejectionErrors ==
    { [t |-> "Error", name |-> "TypeError", message |-> <<"fetch failed">>],
      [t |-> "Error", name |-> "AbortError", message |-> <<"aborted">>],
      TimedOut }

\* A thrown value that is not an Error.
NonErrors == {Str(<<"b">>)}

Fetch(outcome) == [e |-> "fetch", outcome |-> outcome]

Wait(ms) == [e |-> "wait", ms |-> ms]

\* dataFetcher.ts:37-39
StatusError(response) ==
    Error(<<"Failed to fetch from ", Url, ", Status: ", ToString(response.status)>>)

\* dataFetcher.ts:44-51
ParseError(parseError) ==
    Error(<<"Failed to parse JSON from response: ">> \o parseError.message)

\* dataFetcher.ts:63-65
MaxRetriesError(error) ==
    Error(<<"Max retries reached for ", Url, ". Last error: ">> \o error.message)

\* dataFetcher.ts:53-75, the catch clause for an Error
Catch(error) ==
    IF attempt = retries - 1
    THEN /\ result' = MaxRetriesError(error)
         /\ pc' = "rejected"
         /\ UNCHANGED attempt
    ELSE /\ attempt' = attempt + 1
         /\ UNCHANGED <<pc, result>>

\* Looping with <= in the loop's test.
LoopingInclusive == pc = "while" /\ attempt <= retries

\* dataFetcher.ts:21: the loop is entered for another attempt
Looping == pc = "while" /\ attempt < retries

\* Attempt503 with a backoff that grows by one second per attempt.
Attempt503Linear ==
    /\ Looping
    /\ \E response \in Responses :
           /\ ~Ok(response)
           /\ response.status = 503
           /\ events' = events \o <<Fetch(response), Wait((attempt + 1) * 1000)>>
    /\ attempt' = attempt + 1
    /\ UNCHANGED <<pc, result, retries, formatterVars>>

\* dataFetcher.ts:23-35: a 503 response, the backoff wait and the next turn
Attempt503 ==
    /\ Looping
    /\ \E response \in Responses :
           /\ ~Ok(response)
           /\ response.status = 503
           /\ events' = events \o <<Fetch(response), Wait(2 ^ attempt * 1000)>>
    /\ attempt' = attempt + 1
    /\ UNCHANGED <<pc, result, retries, formatterVars>>

\* dataFetcher.ts:23-25, 36-40, 53-75: another non-OK response
AttemptStatus ==
    /\ Looping
    /\ \E response \in Responses :
           /\ ~Ok(response)
           /\ response.status # 503
           /\ events' = Append(events, Fetch(response))
           /\ Catch(StatusError(response))
    /\ UNCHANGED <<retries, formatterVars>>

\* AttemptParsed returning the text of the body, unparsed.
AttemptParsedText ==
    /\ Looping
    /\ \E response \in Responses :
           /\ Ok(response)
           /\ JSONParse(response.text) # SyntaxError
           /\ events' = Append(events, Fetch(response))
           /\ result' = Str(<<response.text>>)
    /\ pc' = "fulfilled"
    /\ UNCHANGED <<attempt, retries, formatterVars>>

\* dataFetcher.ts:23-25, 42-43: an OK response whose body parses
AttemptParsed ==
    /\ Looping
    /\ \E response \in Responses :
           /\ Ok(response)
           /\ JSONParse(response.text) # SyntaxError
           /\ events' = Append(events, Fetch(response))
           /\ result' = JSONParse(response.text)
    /\ pc' = "fulfilled"
    /\ UNCHANGED <<attempt, retries, formatterVars>>

\* dataFetcher.ts:23-25, 42-52, 53-75: an OK response whose body does not parse
AttemptUnparsed ==
    /\ Looping
    /\ \E response \in Responses :
           /\ Ok(response)
           /\ JSONParse(response.text) = SyntaxError
           /\ events' = Append(events, Fetch(response))
           /\ Catch(ParseError(JSONParse(response.text)))
    /\ UNCHANGED <<retries, formatterVars>>

\* dataFetcher.ts:13-19, 23, 53-66, 74: fetch rejects or the timeout fires
AttemptRejected ==
    /\ Looping
    /\ \E error \in RejectionErrors :
           /\ events' = Append(events, Fetch(Rejection(error)))
           /\ Catch(error)
    /\ UNCHANGED <<retries, formatterVars>>

\* dataFetcher.ts:23, 53, 67-73: what was thrown is not an Error
AttemptThrown ==
    /\ Looping
    /\ \E thrown \in NonErrors :
           events' = Append(events, Fetch(Rejection(thrown)))
    /\ result' = Error(<<"Unexpected error occurred during fetch.">>)
    /\ pc' = "rejected"
    /\ UNCHANGED <<attempt, retries, formatterVars>>

\* dataFetcher.ts:21, 76-77: the loop ends and the function falls off its end
ExitLoop ==
    /\ pc = "while"
    /\ ~(attempt < retries)
    /\ result' = Undefined
    /\ pc' = "fulfilled"
    /\ UNCHANGED <<fetchVars, formatterVars>>

InitFetch ==
    /\ pc = "while"
    /\ caller = "dataFetcher"
    /\ retries \in -1..MaxRetries
    /\ attempt = 0
    /\ events = <<>>
    /\ result = Undefined
    /\ key = ""
    /\ field = Undefined
    /\ html = <<>>
    /\ cleanedHtml = <<>>
    /\ body = <<>>
    /\ idx = 0
    /\ richTextDocument = EmptyDocument
    /\ converterCalls = 0
    /\ NoEntry
    /\ NoClient

NextFetch ==
    \/ Attempt503
    \/ AttemptStatus
    \/ AttemptParsed
    \/ AttemptUnparsed
    \/ AttemptRejected
    \/ AttemptThrown
    \/ ExitLoop

SpecFetch == InitFetch /\ [][NextFetch]_vars

\* Every await of the call settles: the fetch or its timeout (dataFetcher.ts:
\* 13-19), the body's text and the backoff timer, so a call that can take a
\* step takes it.
SpecFetchFair == SpecFetch /\ WF_vars(NextFetch)

-----------------------------------------------------------------------------
(* The client's methods (src/unnamed/part_003:213-374).  The backend is    *)
(* the set of items it holds; each of its requests may fail, whatever the  *)
(* reason.  An item's fields are a function from field ids to locale       *)
(* records.  Each await of a method is one step of its call, so calls in   *)
(* progress interleave at their awaits.                                    *)

Locale(v) == [en_US |-> v]

Item(id, kind, type, fields, published) ==
    [id |-> id, kind |-> kind, type |-> type, fields |-> fields,
     published |-> published]

\* No entry: the value of a local that has not been assigned.
NoItem == Item(0, "none", "", <<>>, FALSE)

Request(c, op, ok, id, fields) ==
    [c |-> c, op |-> op, ok |-> ok, id |-> id, fields |-> fields]

\* The arguments contentType, uniqueField and uniqueValue of the calls.
ContentType == "post"

UniqueField == "slug"

UniqueValue == Str(Text(<<"a">>))

\* part_003:239-241, the field ids of the content type's schema
AllowedFields == {"slug", "title"}

\* FilteredFields without the test of the schema.
FilteredFieldsUnfiltered(fields) == fields

\* part_003:243-248
FilteredFields(fields) ==
    [k \in (DOMAIN fields) \cap AllowedFields |-> fields[k]]

\* JSON.stringify of a scalar; undefined has no JSON text.
Stringify(v) ==
    CASE v.t = "string" -> Str(<<Ch("\"")>> \o v.s \o <<Ch("\"")>>)
      [] v.t = "number" -> Str(String(v))
      [] v.t = "null"   -> Str(Text(<<"n", "u", "l", "l">>))
      [] OTHER          -> Undefined

\* existingFields[key]?.["en-US"]
ExistingValue(existingFields, k) ==
    IF k \in DOMAIN existingFields /\ "en_US" \in DOMAIN existingFields[k]
    THEN existingFields[k].en_US
    ELSE Undefined

\* HasChanged without the comparison: every supplied field counts as changed.
HasChangedAlways(existingFields, filteredFields, k) ==
    k \in DOMAIN filteredFields

\* part_003:267-270
HasChanged(existingFields, filteredFields, k) ==
    Stringify(filteredFields[k].en_US)
        # Stringify(ExistingValue(existingFields, k))

\* part_003:263-274, existingFields after the forEach
MergedFields(existingFields, filteredFields) ==
    LET changed == {k \in DOMAIN filteredFields :
                       HasChanged(existingFields, filteredFields, k)}
    IN  [k \in (DOMAIN existingFields) \cup changed |->
            IF k \in changed THEN filteredFields[k] ELSE existingFields[k]]

\* part_003:261, 271, 276
HasChanges(existingFields, filteredFields) ==
    \E k \in DOMAIN filteredFields : HasChanged(existingFields, filteredFields, k)

\* The query of part_003:250-254.
Matches(item) ==
    /\ item.kind = "entry"
    /\ item.type = ContentType
    /\ UniqueField \in DOMAIN item.fields
    /\ item.fields[UniqueField].en_US = UniqueValue

Held(id, kind) == {item \in environment : item.id = id /\ item.kind = kind}

\* The id the backend gives a new item.
FreshId ==
    LET ids == {item.id : item \in environment}
                   \cup {requests[i].id : i \in 1..Len(requests)}
    IN  1 + CHOOSE m \in ids \cup {0} : \A n \in ids : n <= m

\* The backend replaces an item by its new state.
Stored(item) == (environment \ Held(item.id, item.kind)) \cup {item}

Set(c, locals) == calls' = [calls EXCEPT ![c] = locals]

Resolve(c, value) ==
    Set(c, [calls[c] EXCEPT !.pc = "end", !.settled = "resolved", !.value = value])

Reject(c) ==
    Set(c, [calls[c] EXCEPT !.pc = "end", !.settled = "rejected"])

Logged(request) == requests' = Append(requests, request)

\* part_003:238-248
GetContentType(c) ==
    /\ calls[c].pc = "getContentType"
    /\ \E ok \in BOOLEAN :
           /\ Logged(Request(c, "getContentType", ok, 0, <<>>))
           /\ IF ok
              THEN Set(c, [calls[c] EXCEPT
                              !.pc = "getEntries",
                              !.filteredFields = FilteredFields(calls[c].fields)])
              ELSE Reject(c)
    /\ UNCHANGED <<environment, helperVars>>

\* part_003:250-276, 287, 301
GetEntries(c) ==
    /\ calls[c].pc = "getEntries"
    /\ LET items == {item \in environment : Matches(item)}
           filteredFields == calls[c].filteredFields
       IN  \/ /\ Logged(Request(c, "getEntries", FALSE, 0, <<>>))
              /\ Reject(c)
           \/ /\ items = {}
              /\ Logged(Request(c, "getEntries", TRUE, 0, <<>>))
              /\ Set(c, [calls[c] EXCEPT !.pc = "createEntry"])
           \/ \E item \in items :
                  /\ Logged(Request(c, "getEntries", TRUE, item.id, item.fields))
                  /\ LET entry == [item EXCEPT !.fields =
                                      MergedFields(item.fields, filteredFields)]
                     IN  IF HasChanges(item.fields, filteredFields)
                         THEN Set(c, [calls[c] EXCEPT !.pc = "update",
                                                      !.entry = entry])
                         ELSE Set(c, [calls[c] EXCEPT !.pc = "end",
                                                      !.entry = entry,
                                                      !.settled = "resolved",
                                                      !.value = entry])
    /\ UNCHANGED <<environment, helperVars>>

\* part_003:276-286, 301: entry.update()
UpdateEntry(c) ==
    /\ calls[c].pc = "update"
    /\ LET entry == calls[c].entry
       IN  \/ /\ Held(entry.id, "entry") # {}
              /\ LET updated == [entry EXCEPT !.published = FALSE]
                 IN  /\ environment' = Stored(updated)
                     /\ Logged(Request(c, "update", TRUE, entry.id, entry.fields))
                     /\ IF calls[c].publish
                        THEN Set(c, [calls[c] EXCEPT !.pc = "publishUpdated",
                                                     !.entry = updated])
                        ELSE Resolve(c, updated)
           \/ /\ Logged(Request(c, "update", FALSE, entry.id, entry.fields))
              /\ Resolve(c, entry)
              /\ UNCHANGED environment
    /\ UNCHANGED helperVars

\* part_003:280-285, 301: entry.publish() after an update
PublishUpdated(c) ==
    /\ calls[c].pc = "publishUpdated"
    /\ LET entry == calls[c].entry
       IN  \/ /\ Held(entry.id, "entry") # {}
              /\ LET published == [entry EXCEPT !.published = TRUE]
                 IN  /\ environment' = Stored(published)
                     /\ Logged(Request(c, "publish", TRUE, entry.id, entry.fields))
                     /\ Resolve(c, published)
           \/ /\ Logged(Request(c, "publish", FALSE, entry.id, entry.fields))
              /\ Resolve(c, entry)
              /\ UNCHANGED environment
    /\ UNCHANGED helperVars

\* part_003:288-298, 301: environment.createEntry(...)
CreateEntry(c) ==
    /\ calls[c].pc = "createEntry"
    /\ LET filteredFields == calls[c].filteredFields
       IN  \/ LET created == Item(FreshId, "entry", ContentType,
                                  filteredFields, FALSE)
              IN  /\ environment' = Stored(created)
                  /\ Logged(Request(c, "createEntry", TRUE, created.id,
                                    filteredFields))
                  /\ IF calls[c].publish
                     THEN Set(c, [calls[c] EXCEPT !.pc = "publishCreated",
                                                  !.entry = created])
                     ELSE Resolve(c, created)
           \/ /\ Logged(Request(c, "createEntry", FALSE, 0, filteredFields))
              /\ Reject(c)
              /\ UNCHANGED environment
    /\ UNCHANGED helperVars

\* part_003:292-298, 301: entry.publish() after a creation
PublishCreated(c) ==
    /\ calls[c].pc = "publishCreated"
    /\ LET entry == calls[c].entry
       IN  \/ /\ Held(entry.id, "entry") # {}
              /\ LET published == [entry EXCEPT !.published = TRUE]
                 IN  /\ environment' = Stored(published)
                     /\ Logged(Request(c, "publish", TRUE, entry.id, entry.fields))
                     /\ Resolve(c, published)
           \/ /\ Logged(Request(c, "publish", FALSE, entry.id, entry.fields))
              /\ Reject(c)
              /\ UNCHANGED environment
    /\ UNCHANGED helperVars

\* The kind of item a delete method works on.
KindOf(method) == IF method = "deleteAsset" THEN "asset" ELSE "entry"

\* part_003:318, 337: environment.getEntry(entryId), environment.getAsset(assetId)
GetItem(c) ==
    /\ calls[c].pc = "get"
    /\ LET id == calls[c].id
       IN  \/ \E item \in Held(id, KindOf(calls[c].method)) :
                  /\ Logged(Request(c, "get", TRUE, id, <<>>))
                  /\ Set(c, [calls[c] EXCEPT !.pc = "unpublish", !.entry = item])
           \/ /\ Logged(Request(c, "get", FALSE, id, <<>>))
              /\ Reject(c)
    /\ UNCHANGED <<environment, helperVars>>

\* Unpublish without the .catch(() => {}).
UnpublishThrows(c) ==
    /\ calls[c].pc = "unpublish"
    /\ LET entry == calls[c].entry
       IN  \/ /\ \E item \in Held(entry.id, entry.kind) : item.published
              /\ environment' = Stored([entry EXCEPT !.published = FALSE])
              /\ Logged(Request(c, "unpublish", TRUE, entry.id, <<>>))
              /\ Set(c, [calls[c] EXCEPT !.pc = "delete"])
           \/ /\ Logged(Request(c, "unpublish", FALSE, entry.id, <<>>))
              /\ Reject(c)
              /\ UNCHANGED environment
    /\ UNCHANGED helperVars

\* part_003:319, 338: entry.unpublish().catch(() => {})
Unpublish(c) ==
    /\ calls[c].pc = "unpublish"
    /\ LET entry == calls[c].entry
       IN  \/ /\ \E item \in Held(entry.id, entry.kind) : item.published
              /\ environment' = Stored([entry EXCEPT !.published = FALSE])
              /\ Logged(Request(c, "unpublish", TRUE, entry.id, <<>>))
           \/ /\ Logged(Request(c, "unpublish", FALSE, entry.id, <<>>))
              /\ UNCHANGED environment
    /\ Set(c, [calls[c] EXCEPT !.pc = "delete"])
    /\ UNCHANGED helperVars

\* part_003:320, 339: entry.delete()
Delete(c) ==
    /\ calls[c].pc = "delete"
    /\ LET entry == calls[c].entry
       IN  \/ /\ Held(entry.id, entry.kind) # {}
              /\ environment' = environment \ Held(entry.id, entry.kind)
              /\ Logged(Request(c, "delete", TRUE, entry.id, <<>>))
              /\ Resolve(c, Undefined)
           \/ /\ Logged(Request(c, "delete", FALSE, entry.id, <<>>))
              /\ Reject(c)
              /\ UNCHANGED environment
    /\ UNCHANGED helperVars

\* The locale record of a field holding the one-character text ch.
Field(ch) == Locale(Str(Text(<<ch>>)))

\* The fields argument: any of slug, title and a field outside the schema.
SuppliedFields ==
    UNION { [K -> {Field("a"), Field("b"), Field("x"), Field("y")}] :
              K \in SUBSET {"slug", "title", "extra"} }

\* What the backend may hold when a call begins.
OtherItems ==
    { Item(2, "entry", ContentType, [slug |-> Field("b")], FALSE),
      Item(3, "asset", "", [title |-> Field("x")], TRUE) }

Environments ==
    {{}, OtherItems}
        \cup { OtherItems \cup {Item(1, "entry", ContentType, f, p)} :
                 f \in {[slug |-> Field("a")],
                         [slug |-> Field("a"), title |-> Field("x")],
                         [slug |-> Field("a"), title |-> Field("y")]},
                 p \in BOOLEAN }

Call(method, fields, publish, id) ==
    [method |-> method, pc |-> IF method = "createOrUpdateEntry"
                               THEN "getContentType" ELSE "get",
     fields |-> fields, publish |-> publish, id |-> id,
     filteredFields |-> <<>>, entry |-> NoItem,
     settled |-> "pending", value |-> Undefined]

CreateOrUpdateCalls ==
    {Call("createOrUpdateEntry", f, p, 0) : f \in SuppliedFields, p \in BOOLEAN}

DeleteCalls ==
    {Call(m, <<>>, FALSE, id) : m \in {"deleteEntry", "deleteAsset"},
                                 id \in {1, 3, 9}}

\* Nothing of the helpers is in progress.
NoHelper ==
    /\ pc = "idle"
    /\ caller = "client"
    /\ key = ""
    /\ field = Undefined
    /\ html = <<>>
    /\ cleanedHtml = <<>>
    /\ body = <<>>
    /\ idx = 0
    /\ richTextDocument = EmptyDocument
    /\ result = Undefined
    /\ converterCalls = 0
    /\ NoEntry
    /\ NoFetch

\* One call of a method of the client.
InitClient ==
    /\ NoHelper
    /\ environment \in Environments
    /\ \E call \in CreateOrUpdateCalls \cup DeleteCalls : calls = <<call>>
    /\ requests = <<>>

NextCreateOrUpdate ==
    \/ \E c \in DOMAIN calls : GetContentType(c)
    \/ \E c \in DOMAIN calls : GetEntries(c)
    \/ \E c \in DOMAIN calls : UpdateEntry(c)
    \/ \E c \in DOMAIN calls : PublishUpdated(c)
    \/ \E c \in DOMAIN calls : CreateEntry(c)
    \/ \E c \in DOMAIN calls : PublishCreated(c)

NextDelete ==
    \/ \E c \in DOMAIN calls : GetItem(c)
    \/ \E c \in DOMAIN calls : Unpublish(c)
    \/ \E c \in DOMAIN calls : Delete(c)

NextClient == NextCreateOrUpdate \/ NextDelete

SpecClient == InitClient /\ [][NextClient]_vars

\* Two calls of createOrUpdateEntry in progress at once, with the same
\* contentType, uniqueField and uniqueValue, their fields carrying the unique
\* value, against a backend that holds no matching entry.
InitRace ==
    /\ NoHelper
    /\ environment \in {{}, OtherItems}
    /\ calls \in [{1, 2} ->
           { Call("createOrUpdateEntry", f, p, 0) :
               f \in {[slug |-> Field("a")],
                       [slug |-> Field("a"), title |-> Field("x")],
                       [slug |-> Field("a"), title |-> Field("y")]},
               p \in BOOLEAN }]
    /\ requests = <<>>

SpecRace == InitRace /\ [][NextCreateOrUpdate]_vars

-----------------------------------------------------------------------------
(* Properties of htmlToRichText.                                           *)

Returned == pc = "done" /\ caller = "htmlToRichText"

\* The top-level elements of the loaded text.
Elements == Children(body)

IsEmptyObject(d) == DOMAIN d = {}

\* C1: every returned document has nodeType "document", empty data and a
\* content that is never empty; when <body> has no child element (empty,
\* text-only or comment-only input) the content is exactly one paragraph
\* with no inline children.
C1_NeverEmpty ==
    Returned =>
        /\ result.nodeType = "document"
        /\ IsEmptyObject(result.data)
        /\ Len(result.content) >= 1
        /\ Len(Elements) = 0 =>
               /\ Len(result.content) = 1
               /\ result.content[1].nodeType = "paragraph"
               /\ result.content[1].content = <<>>
               /\ IsEmptyObject(result.content[1].data)

\* A comment-only or text-only input has been converted.
C1_Witness ==
    /\ Returned
    /\ html # <<>>
    /\ Len(Elements) = 0
    /\ \E i \in 1..Len(html) : html[i].k = "comment"
    /\ \E i \in 1..Len(html) : html[i].k = "char"
    /\ Len(result.content) = 1

\* The node type the dispatch table gives a tag name.
TableNodeType(name) ==
    CASE name = "p"  -> "paragraph"
      [] name = "h1" -> "heading-1"
      [] name = "h2" -> "heading-2"
      [] name = "h3" -> "heading-3"
      [] name = "h4" -> "heading-4"
      [] name = "h5" -> "heading-5"
      [] name = "h6" -> "heading-6"
      [] name = "ul" -> "unordered-list"
      [] name = "ol" -> "ordered-list"
      [] name = "li" -> "list-item"
      [] name = "blockquote" -> "blockquote"
      [] name = "hr"  -> "hr"
      [] name = "a"   -> "paragraph"
      [] name = "img" -> "embedded-asset-block"
      [] OTHER -> "paragraph"

BlockNodeTypes ==
    {"paragraph", "heading-1", "heading-2", "heading-3", "heading-4",
     "heading-5", "heading-6", "unordered-list", "ordered-list", "list-item",
     "blockquote", "hr", "embedded-asset-block"}

\* C2: the block made for a top-level element has the node type that the
\* dispatch table gives the element's lower-cased tag name, whatever the
\* element holds; no element yields another node type or no node.
C2_Dispatch ==
    pc \in {"each", "done"} =>
        /\ \A i \in 1..Len(richTextDocument.content) :
               i <= Len(Elements) =>
                   /\ richTextDocument.content[i].nodeType =
                          TableNodeType(ToLowerCase(Elements[i].name))
                   /\ richTextDocument.content[i].nodeType \in BlockNodeTypes
        /\ (Returned /\ html # <<>> /\ html[1].k = "open") =>
               result.content[1].nodeType =
                   TableNodeType(ToLowerCase(html[1].tag))

\* An upper-case heading, a tag without a case of its own and the last
\* heading level have each been dispatched.
C2_Witness ==
    /\ Returned
    /\ html # <<>>
    /\ html[1].k = "open"
    /\ html[1].tag \in {"H2", "h7", "h6"}
    /\ result.content[1].nodeType \in {"heading-2", "paragraph", "heading-6"}

\* C3: with n >= 1 child elements of <body> the document has exactly n
\* blocks, the i-th being the conversion of the i-th child: nothing is
\* skipped, repeated or reordered and no empty paragraph is added.
C3_OneBlockPerElement ==
    /\ pc = "each" => Len(richTextDocument.content) = idx - 1
    /\ (Returned /\ Len(Elements) >= 1) =>
           /\ Len(result.content) = Len(Elements)
           /\ \A i \in 1..Len(Elements) :
                  result.content[i] = processElement(Elements[i])

\* Three top-level elements of different kinds have been converted.
C3_Witness ==
    /\ Returned
    /\ Len(Elements) >= 3
    /\ Elements[1].name = "img"
    /\ Elements[2].name = "a"
    /\ Elements[3].name = "h2"
    /\ result.content[1].nodeType = "embedded-asset-block"
    /\ result.content[2].nodeType = "paragraph"
    /\ result.content[3].nodeType = "heading-2"

IsBlank(d) == \A k \in 1..Len(d) : d[k] \in {" ", "\n", "\t"}

\* The direct text-node children of an element that hold more than white
\* space, in order.
DirectRuns(element) ==
    SelectSeq(element.children, LAMBDA n : n.type = "text" /\ ~IsBlank(n.data))

\* v is d without the white space at its two ends, and is not empty.
IsTrimOf(v, d) ==
    /\ v # <<>>
    /\ v[1] \notin {" ", "\n", "\t"}
    /\ v[Len(v)] \notin {" ", "\n", "\t"}
    /\ \E a \in 0..(Len(d) - Len(v)) :
           /\ SubSeq(d, a + 1, a + Len(v)) = v
           /\ IsBlank(SubSeq(d, 1, a))
           /\ IsBlank(SubSeq(d, a + Len(v) + 1, Len(d)))

\* text is what processTextContent is claimed to return for element.
IsTextContentOf(text, element) ==
    LET runs == DirectRuns(element)
    IN  /\ Len(text) = Len(runs)
        /\ \A j \in 1..Len(runs) :
               /\ text[j].nodeType = "text"
               /\ IsTrimOf(text[j].value, runs[j].data)
               /\ text[j].marks = <<>>
               /\ IsEmptyObject(text[j].data)

\* Where the block made for an element of the given name keeps the text
\* content of the element.
TextContentIn(block, name) ==
    IF name \in {"li", "blockquote", "a"} THEN block.content[1].content
    ELSE block.content

\* C4: the text content of an element is one Text node per direct text
\* child whose trimmed value is not empty, in child order, each with the
\* trimmed text as value, no marks and empty data; child elements are not
\* entered, so their text is not in the block.
C4_DirectTextOnly ==
    Returned =>
        \A i \in 1..Len(Elements) :
            Elements[i].name \notin {"ul", "ol", "img", "hr"} =>
                IsTextContentOf(TextContentIn(result.content[i], Elements[i].name),
                                Elements[i])

\* A paragraph with two direct runs padded with white space, around a child
\* element that holds text of its own, has been converted to the two runs.
C4_Witness ==
    /\ Returned
    /\ Len(Elements) = 1
    /\ Elements[1].name = "p"
    /\ \E k \in 1..Len(Elements[1].children) :
           /\ Elements[1].children[k].type = "tag"
           /\ DirectRuns(Elements[1].children[k]) # <<>>
    /\ Len(result.content[1].content) = 2
    /\ result.content[1].content[1].value = <<"x">>
    /\ result.content[1].content[2].value = <<"z", " ", "w">>

\* The characters other than white space in the text nodes below a node of
\* the loaded tree.
RECURSIVE SourceChars(_)
SourceChars(node) ==
    IF node.type = "text" THEN {node.data[k] : k \in 1..Len(node.data)} \ {" ", "\n", "\t"}
    ELSE IF node.type = "tag"
    THEN UNION {SourceChars(node.children[k]) : k \in 1..Len(node.children)}
    ELSE {}

\* The characters in the Text nodes of a rich-text node.
RECURSIVE DocumentChars(_)
DocumentChars(node) ==
    IF node.nodeType = "text" THEN {node.value[k] : k \in 1..Len(node.value)}
    ELSE UNION {DocumentChars(node.content[k]) : k \in 1..Len(node.content)}

\* C5: nothing is dropped: the text held by a top-level element, at any
\* depth, is in some Text node of the returned document.
C5_NoTextDropped ==
    Returned =>
        \A i \in 1..Len(Elements) :
            SourceChars(Elements[i]) \subseteq DocumentChars(result)

\* The direct li children of an element, in order.
DirectItems(element) ==
    SelectSeq(element.children, LAMBDA n : n.type = "tag" /\ n.name = "li")

\* item is the ListItem claimed for the li element: one paragraph holding
\* the direct text runs of the li.
IsListItemOf(item, li) ==
    /\ item.nodeType = "list-item"
    /\ IsEmptyObject(item.data)
    /\ Len(item.content) = 1
    /\ item.content[1].nodeType = "paragraph"
    /\ IsEmptyObject(item.content[1].data)
    /\ IsTextContentOf(item.content[1].content, li)

\* C6: the block of a top-level ul or ol holds one ListItem per direct li
\* child, in order, and nothing for other children or for li elements
\* deeper down; without a direct li child it is empty.  Every ListItem is
\* one paragraph holding the direct text runs of its li.
C6_ListItems ==
    Returned =>
        \A i \in 1..Len(Elements) :
            /\ Elements[i].name \in {"ul", "ol"} =>
                   LET items == DirectItems(Elements[i])
                       block == result.content[i]
                   IN  /\ block.nodeType =
                              (IF Elements[i].name = "ul" THEN "unordered-list"
                               ELSE "ordered-list")
                       /\ Len(block.content) = Len(items)
                       /\ \A j \in 1..Len(items) :
                              IsListItemOf(block.content[j], items[j])
            /\ Elements[i].name = "li" =>
                   IsListItemOf(result.content[i], Elements[i])

\* An ordered list with text of its own, two direct items, an item below a
\* child element and an item holding a child element has been converted
\* to its two direct items.
C6_Witness ==
    /\ Returned
    /\ Len(Elements) = 1
    /\ Elements[1].name = "ol"
    /\ Len(DirectItems(Elements[1])) = 2
    /\ Len(Find(Elements[1].children, "li")) = 3
    /\ Len(result.content[1].content) = 2
    /\ result.content[1].content[1].content[1].content[1].value = <<"A">>
    /\ result.content[1].content[2].content[1].content[1].value = <<"C">>

\* Whether a rich-text node, or a node below it, has the node type.
RECURSIVE HasNodeType(_, _)
HasNodeType(node, type) ==
    \/ node.nodeType = type
    \/ /\ node.nodeType # "text"
       /\ \E k \in 1..Len(node.content) : HasNodeType(node.content[k], type)

\* C7: a top-level a becomes a paragraph holding exactly one Hyperlink,
\* whose data.uri is the href value, or the empty string when href is
\* absent or empty, and whose content is the direct text runs of the
\* anchor; no other block holds a Hyperlink at any depth.
C7_Hyperlink ==
    Returned =>
        \A i \in 1..Len(Elements) :
            LET el    == Elements[i]
                block == result.content[i]
            IN  IF el.name = "a"
                THEN /\ block.nodeType = "paragraph"
                     /\ IsEmptyObject(block.data)
                     /\ Len(block.content) = 1
                     /\ block.content[1].nodeType = "hyperlink"
                     /\ DOMAIN block.content[1].data = {"uri"}
                     /\ block.content[1].data.uri =
                            (IF "href" \in DOMAIN el.attribs
                             THEN el.attribs["href"] ELSE <<>>)
                     /\ IsTextContentOf(block.content[1].content, el)
                ELSE ~HasNodeType(block, "hyperlink")

\* A paragraph holding an anchor, then an anchor without href, have been
\* converted: no Hyperlink in the first block, one with uri "" in the second.
C7_Witness ==
    /\ Returned
    /\ Len(Elements) >= 2
    /\ Elements[1].name = "p"
    /\ Find(Elements[1].children, "a") # <<>>
    /\ Elements[2].name = "a"
    /\ "href" \notin DOMAIN Elements[2].attribs
    /\ result.content[2].content[1].data.uri = <<>>
    /\ result.content[2].content[1].content[1].value = <<"y">>

\* The block nodes of a rich-text node: the node and the nodes below it
\* that are neither Text nor Hyperlink.
RECURSIVE BlocksOf(_)
BlocksOf(node) ==
    IF node.nodeType \in {"text", "hyperlink"} THEN {}
    ELSE {node} \cup UNION {BlocksOf(node.content[k]) : k \in 1..Len(node.content)}

\* C8: a top-level img becomes an EmbeddedAsset with no content whose
\* data.target.sys is {id, type "Link", linkType "Asset"}, id being the src
\* value, or the empty string when src is absent; every other block has
\* empty data.
C8_EmbeddedAsset ==
    Returned =>
        /\ \A i \in 1..Len(Elements) :
               Elements[i].name = "img" =>
                   /\ result.content[i].nodeType = "embedded-asset-block"
                   /\ result.content[i].content = <<>>
                   /\ result.content[i].data =
                          [target |-> [sys |->
                              [id |-> IF "src" \in DOMAIN Elements[i].attribs
                                      THEN Elements[i].attribs["src"] ELSE <<>>,
                               type |-> "Link",
                               linkType |-> "Asset"]]]
        /\ \A b \in BlocksOf(result) :
               b.nodeType # "embedded-asset-block" => IsEmptyObject(b.data)

\* An image with a src, after an anchor with an href, has been converted.
C8_Witness ==
    /\ Returned
    /\ Len(Elements) = 2
    /\ Elements[1].name = "a"
    /\ Elements[2].name = "img"
    /\ "href" \in DOMAIN Elements[1].attribs
    /\ result.content[2].data.target.sys.id = <<"u">>
    /\ result.content[1].content[1].data.uri = <<"u">>

\* A string without its newlines and tabs.
RECURSIVE WithoutNT(_)
WithoutNT(s) ==
    IF s = <<>> THEN <<>>
    ELSE IF Head(s) = "\n" \/ Head(s) = "\t" THEN WithoutNT(Tail(s))
    ELSE <<Head(s)>> \o WithoutNT(Tail(s))

\* A source text without its newlines and tabs.
RECURSIVE Deleted(_)
Deleted(h) ==
    IF h = <<>> THEN <<>>
    ELSE LET l == Head(h)
         IN  IF l.k = "char"
             THEN (IF l.c = "\n" \/ l.c = "\t" THEN <<>> ELSE <<l>>) \o Deleted(Tail(h))
             ELSE IF l.k = "open"
             THEN <<Open(l.tag, [n \in DOMAIN l.attribs |-> WithoutNT(l.attribs[n])])>>
                      \o Deleted(Tail(h))
             ELSE <<l>> \o Deleted(Tail(h))

\* The characters of a source text that is <p>, characters, and perhaps </p>.
ParagraphText(h) ==
    LET n == IF h[Len(h)] = Close("p") THEN Len(h) - 1 ELSE Len(h)
    IN  [i \in 1..(n - 1) |-> h[i + 1].c]

IsOneParagraph(h) ==
    /\ Len(h) >= 2
    /\ h[1] = Open("p", NoAttribs)
    /\ \A i \in 2..Len(h) : h[i].k = "char" \/ (i = Len(h) /\ h[i] = Close("p"))

\* C9: what is parsed is the input without its newlines and tabs and is
\* otherwise the input, so the document of h is the document of h with
\* every newline and tab deleted; a paragraph of text padded with spaces,
\* newlines and tabs gives one Text node holding the trimmed text.
C9_StripNewlinesTabs ==
    /\ pc \in {"load", "each", "done"} => cleanedHtml = Deleted(html)
    /\ Returned =>
           /\ result = HtmlToRichText(Deleted(html))
           /\ (IsOneParagraph(html) /\ ~IsBlank(ParagraphText(html))) =>
                  /\ Len(result.content) = 1
                  /\ Len(result.content[1].content) = 1
                  /\ IsTrimOf(result.content[1].content[1].value,
                              WithoutNT(ParagraphText(html)))

\* The paragraph "  \n\tHi  " has been converted to the Text node "Hi".
C9_Witness ==
    /\ Returned
    /\ IsOneParagraph(html)
    /\ \E i \in 1..Len(html) : html[i] = Ch("\n")
    /\ \E i \in 1..Len(html) : html[i] = Ch("\t")
    /\ html[2] = Ch(" ")
    /\ cleanedHtml # html
    /\ result.content[1].content[1].value = <<"H", "i">>

-----------------------------------------------------------------------------
(* Properties of localizeField.                                            *)

Localized == pc = "done" /\ caller = "localizeField"

IsHtmlString(v) == v.t = "string" /\ HasTagPattern(v.s)

\* C10, as claimed: for key "title" the converter is never called and the
\* locale value is never a StructuredDocument, whatever the value; an HTML
\* string is returned unchanged and an HTML .rendered string is returned raw.
C10_TitleNeverDocument ==
    key = "title" =>
        /\ converterCalls = 0
        /\ Localized =>
               /\ ~IsStructuredDocument(result.en_US)
               /\ IsHtmlString(field) => result.en_US = field
               /\ IsHtmlString(Rendered(field)) => result.en_US = Rendered(field)

\* C10, amended: for key "title" the converter is never called; an HTML
\* string is returned unchanged and an HTML .rendered string is returned
\* raw; the locale value is a StructuredDocument only when the value, or
\* its .rendered, is that document already.
C10_TitleNeverConverted ==
    key = "title" =>
        /\ converterCalls = 0
        /\ pc \in {"localize", "done"}
        /\ Localized =>
               /\ DOMAIN result = {"en_US"}
               /\ IsHtmlString(field) => result.en_US = field
               /\ IsHtmlString(Rendered(field)) => result.en_US = Rendered(field)
               /\ IsStructuredDocument(result.en_US) =>
                      \/ /\ IsStructuredDocument(field)
                         /\ result.en_US = field
                      \/ /\ IsStructuredDocument(Rendered(field))
                         /\ result.en_US = Rendered(field)

\* A title given as an object whose .rendered is an HTML string has been
\* localized to that string.
C10_Witness ==
    /\ Localized
    /\ key = "title"
    /\ IsHtmlString(Rendered(field))
    /\ result.en_US = Str(<<Open("p", NoAttribs), Ch("x"), Close("p")>>)

-----------------------------------------------------------------------------
(* Properties of localizeField's plain branch.                             *)

\* The decimal numerals of the numbers the calls are made with.
Numeral(n) ==
    CASE n = 0  -> Text(<<"0">>)
      [] n = 7  -> Text(<<"7">>)
      [] n = 42 -> Text(<<"4", "2">>)
      [] n = -3 -> Text(<<"-", "3">>)

IsPlainScalar(v) ==
    \/ v.t = "number"
    \/ v.t = "string" /\ ~HasTagPattern(v.s)

\* C11: for every key other than "title" and every value that is a number
\* or a string without a tag pattern, localizeField returns {"en-US":
\* String(value)} and the converter is not entered.
C11_PlainScalar ==
    (key # "title" /\ IsPlainScalar(field)) =>
        /\ converterCalls = 0
        /\ pc \in {"localize", "done"}
        /\ Localized =>
               /\ DOMAIN result = {"en_US"}
               /\ result.en_US.t = "string"
               /\ field.t = "string" => result.en_US.s = field.s
               /\ field.t = "number" => result.en_US.s = Numeral(field.n)

C11_Witness ==
    /\ Localized
    /\ key = "body"
    /\ field = Num(42)
    /\ result = [en_US |-> Str(Text(<<"4", "2">>))]
    /\ converterCalls = 0

\* The string the converter is owed: the value, or else its .rendered.
HtmlSource(v) == IF IsHtmlString(v) THEN v ELSE Rendered(v)

BearsHtml(v) == IsHtmlString(v) \/ IsHtmlString(Rendered(v))

\* C12 as stated: for every key other than "title", the locale value is a
\* StructuredDocument if and only if the value is a string with a tag
\* pattern or its .rendered is such a string, and it then equals
\* htmlToRichText of that string.
C12_DocumentIffHtml ==
    (key # "title" /\ Localized) =>
        /\ IsStructuredDocument(result.en_US) <=> BearsHtml(field)
        /\ BearsHtml(field) =>
               result.en_US = Obj(HtmlToRichText(HtmlSource(field).s))

\* C12, amended: for every key other than "title", the converter is entered
\* if and only if the value is a string with a tag pattern or its .rendered
\* is such a string, and the locale value then equals htmlToRichText of that
\* string; otherwise the locale value is a StructuredDocument only when the
\* value, or its .rendered, already is that document.
C12_ConvertedIffHtml ==
    (key # "title" /\ Localized) =>
        /\ converterCalls = 1 <=> BearsHtml(field)
        /\ converterCalls \in {0, 1}
        /\ BearsHtml(field) =>
               result.en_US = Obj(HtmlToRichText(HtmlSource(field).s))
        /\ (~BearsHtml(field) /\ IsStructuredDocument(result.en_US)) =>
               result.en_US \in {field, Rendered(field)}

C12_Witness ==
    /\ Localized
    /\ key = "body"
    /\ field = Obj([rendered |-> Str(<<Open("p", NoAttribs), Ch("x"), Close("p")>>)])
    /\ converterCalls = 1
    /\ IsStructuredDocument(result.en_US)
    /\ result.en_US.props.content[1].nodeType = "paragraph"

\* C13: for every key and every value, localizeField returns a mapping with
\* exactly the one key "en-US", whose value is a string or a
\* StructuredDocument.
C13_StringOrDocument ==
    Localized =>
        /\ DOMAIN result = {"en_US"}
        /\ \/ result.en_US.t = "string"
           \/ IsStructuredDocument(result.en_US)

\* A value with a .rendered property.
HasRendered(v) == v.t = "object" /\ "rendered" \in DOMAIN v.props

\* C14: when the converter is not entered and the value is neither a string
\* nor a number, the locale value is value.rendered if the value has a
\* .rendered property, whatever that property holds, and the value itself
\* otherwise.
C14_RenderedOrValue ==
    (Localized /\ converterCalls = 0 /\ field.t \notin {"string", "number"}) =>
        result.en_US = IF HasRendered(field) THEN field.props.rendered ELSE field

\* C15: localizeField and htmlToRichText have no error outcome: for every
\* key, every value and every source text the call raises nothing, is at
\* every moment at a statement that can be taken (the loop over the
\* elements within its range), and has a result when it has returned.
C15_NeverRaises ==
    /\ pc \in {"localize", "strip", "load", "each", "done"}
    /\ result # TypeError
    /\ pc = "each" => idx \in 1..(Len(Children(body)) + 1)
    /\ pc = "done" => result # Undefined

C15_Witness ==
    /\ Localized
    /\ field = Null
    /\ result = [en_US |-> Null]

-----------------------------------------------------------------------------
(* Properties of formatEntry.                                              *)

Formatted == pc = "returned" /\ caller = "formatEntry"

\* C16: formatEntry returns {fields} whose keys are those of content, in
\* the same order, and fields[k] is localizeField(k, content[k]) for every
\* key k: no key is added, dropped or renamed, and no field's value depends
\* on another's.
C16_SameKeysEachLocalized ==
    Formatted =>
        /\ DOMAIN formatted = {"fields"}
        /\ Len(formatted.fields) = Len(content)
        /\ \A i \in 1..Len(content) :
               /\ formatted.fields[i][1] = content[i][1]
               /\ formatted.fields[i][2] =
                      localizeField(content[i][1], content[i][2])

C16_Witness ==
    /\ Formatted
    /\ Len(content) = 2
    /\ content[1] = <<"body", Str(<<Open("p", NoAttribs), Ch("x"), Close("p")>>)>>
    /\ content[2] = <<"title", Null>>
    /\ formatted.fields[1][1] = "body"
    /\ IsStructuredDocument(formatted.fields[1][2].en_US)
    /\ formatted.fields[2] = <<"title", [en_US |-> Null]>>

\* The addresses of the caller's objects that a value reaches.
RECURSIVE Addresses(_)
Addresses(v) ==
    IF v.t # "object" THEN {}
    ELSE (IF "ref" \in DOMAIN v THEN {v.ref} ELSE {})
         \cup (IF "rendered" \in DOMAIN v.props
               THEN Addresses(v.props.rendered) ELSE {})

\* C17: formatEntry and localizeField return a fresh structure: no object
\* of the caller's is reachable from the result, pass-through values
\* included.
C17_NoAliasing ==
    Formatted =>
        \A i \in 1..Len(formatted.fields) : \A j \in 1..Len(content) :
            Addresses(formatted.fields[i][2].en_US)
                \cap Addresses(content[j][2]) = {}

-----------------------------------------------------------------------------
(* Properties of dataFetcher.                                              *)

Fetching == caller = "dataFetcher"

Settled == Fetching /\ pc \in {"fulfilled", "rejected"}

IsFetch(ev) == ev.e = "fetch"

\* An attempt that received an OK response with a body that parses.
Succeeded(ev) ==
    /\ IsFetch(ev)
    /\ ev.outcome.kind = "response"
    /\ ev.outcome.status \in 200..299
    /\ ev.outcome.text \in {"{\"a\":1}", "null"}

\* An attempt that received a response with one of the statuses.
GotStatus(ev, statuses) ==
    /\ IsFetch(ev)
    /\ ev.outcome.kind = "response"
    /\ ev.outcome.status \in statuses

\* C18: the call returns the parsed body of the first attempt that
\* receives an OK response with parseable JSON, and that attempt is the
\* last thing the call does: no fetch and no backoff wait follows it.
C18_FirstSuccessReturns ==
    Fetching =>
        \A i \in 1..Len(events) :
            Succeeded(events[i]) =>
                /\ i = Len(events)
                /\ pc = "fulfilled"
                /\ result = JSONParse(events[i].outcome.text)
                /\ result \in {Null, Obj([a |-> Num(1)])}

C18_Witness ==
    /\ Settled
    /\ Len(events) = 3
    /\ GotStatus(events[1], {503})
    /\ events[2].e = "wait"
    /\ Succeeded(events[3])
    /\ result = Obj([a |-> Num(1)])

\* The failures of an attempt: a non-OK response, a body that does not
\* parse, a network error or a timeout.
Failed(ev) ==
    \/ GotStatus(ev, {404, 500, 503})
    \/ /\ IsFetch(ev)
       /\ ev.outcome.kind = "response"
       /\ ev.outcome.status \in 200..299
       /\ ev.outcome.text \notin {"{\"a\":1}", "null"}
    \/ /\ IsFetch(ev)
       /\ ev.outcome.kind = "rejected"
       /\ ev.outcome.reason.t = "Error"

\* C19: a call with a retry budget in which every attempt failed (503,
\* network error, timeout, other non-OK status, parse failure, in any mix)
\* ends rejected with an error; it never resolves without a value.
C19_ExhaustionRejects ==
    (/\ Settled
     /\ retries >= 1
     /\ \A i \in 1..Len(events) : IsFetch(events[i]) => Failed(events[i]))
        => /\ pc = "rejected"
           /\ result.t = "Error"

\* C20: only a 503 is retried: an attempt that receives a non-OK response
\* with another status is the call's last, whatever is left of the budget,
\* and the call is rejected with an error that names that status.
C20_Only503Retried ==
    Fetching =>
        \A i \in 1..Len(events) :
            GotStatus(events[i], {404, 500}) =>
                /\ i = Len(events)
                /\ pc = "rejected"
                /\ \E k \in 1..Len(result.message) :
                       result.message[k] = ToString(events[i].outcome.status)

\* How many of the first n events are fetches.
FetchCount(n) == Cardinality({i \in 1..n : IsFetch(events[i])})

IsWait(ev) == ev.e = "wait"

\* Two to the power n, in seconds.
Seconds(n) ==
    CASE n = 0 -> 1
      [] n = 1 -> 2
      [] n = 2 -> 4
      [] n = 3 -> 8
      [] n = 4 -> 16
      [] n = 5 -> 32
      [] n = 6 -> 64

\* C21: a backoff wait happens right after a 503 response and after
\* nothing else, every 503 response is followed by one, it lasts 2^attempt
\* seconds where attempt is the zero-based index of the attempt that
\* failed, and the waits of one call are strictly increasing.
C21_ExponentialBackoff ==
    Fetching =>
        /\ \A i \in 1..Len(events) :
               IsWait(events[i]) =>
                   /\ i > 1
                   /\ GotStatus(events[i - 1], {503})
                   /\ events[i].ms = Seconds(FetchCount(i) - 1) * 1000
        /\ \A i \in 1..Len(events) :
               GotStatus(events[i], {503}) =>
                   /\ i < Len(events)
                   /\ IsWait(events[i + 1])
        /\ \A i, j \in 1..Len(events) :
               (IsWait(events[i]) /\ IsWait(events[j]) /\ i < j) =>
                   events[i].ms < events[j].ms

C21_Witness ==
    /\ Fetching
    /\ Len(events) = 5
    /\ GotStatus(events[1], {503})
    /\ events[2] = Wait(1000)
    /\ GotStatus(events[3], {404})
    /\ GotStatus(events[4], {503})
    /\ events[5] = Wait(4000)

\* C25: a call makes at most `retries` fetch attempts and none when retries
\* is zero or less, the attempt counter goes up by exactly one on every
\* turn of the loop that neither returns nor throws, and the call ends by
\* returning or throwing.
C25_BoundedAttempts ==
    /\ [](Fetching =>
            /\ FetchCount(Len(events)) <= retries \/ events = <<>>
            /\ retries <= 0 => events = <<>>
            /\ attempt \in 0..FetchCount(Len(events)))
    /\ [][(pc = "while" /\ pc' = "while") =>
              /\ attempt' = attempt + 1
              /\ Len(SelectSeq(events', IsFetch)) =
                     Len(SelectSeq(events, IsFetch)) + 1]_vars
    /\ <>Settled

C25_Witness ==
    /\ Settled
    /\ retries = 5
    /\ FetchCount(Len(events)) = 5
    /\ pc = "rejected"

-----------------------------------------------------------------------------
(* Properties of the client's methods.                                     *)

CreateOrUpdates == {c \in DOMAIN calls : calls[c].method = "createOrUpdateEntry"}

\* The positions of call c's requests of one kind.
Ops(c, op) ==
    {i \in 1..Len(requests) : requests[i].c = c /\ requests[i].op = op}

\* The supplied fields whose ids are in the schema.
InSchema(fields) ==
    [k \in {k \in DOMAIN fields : k \in {"slug", "title"}} |-> fields[k]]

MatchingIds == {item.id : item \in {e \in environment : Matches(e)}}

\* C22: a call of createOrUpdateEntry looks the unique value up first and
\* then updates the first match or, when there is none, creates an entry:
\* it never both creates and updates, never creates when a match exists,
\* and a created entry's fields are the supplied fields restricted to the
\* field ids of the schema.
C22_CreateXorUpdate ==
    \A c \in CreateOrUpdates :
        /\ Ops(c, "createEntry") = {} \/ Ops(c, "update") = {}
        /\ \A i \in Ops(c, "createEntry") \cup Ops(c, "update") :
               \E j \in Ops(c, "getEntries") : j < i /\ requests[j].ok
        /\ \A i \in Ops(c, "createEntry") :
               /\ MatchingIds \subseteq {requests[i].id}
               /\ requests[i].fields = InSchema(calls[c].fields)
               /\ requests[i].ok =>
                      \E item \in environment :
                          /\ item.id = requests[i].id
                          /\ item.kind = "entry"
                          /\ item.type = "post"
                          /\ item.fields = InSchema(calls[c].fields)
        /\ \A i \in Ops(c, "update") :
               \E j \in Ops(c, "getEntries") :
                   /\ j < i
                   /\ requests[j].id = requests[i].id
                   /\ requests[j].fields.slug.en_US = Str(Text(<<"a">>))
        /\ \A j \in Ops(c, "getEntries") :
               (requests[j].ok /\ requests[j].id = 0) =>
                   /\ calls[c].settled # "pending" => Ops(c, "createEntry") # {}
                   /\ Ops(c, "createEntry") = {} => MatchingIds = {}

C22_Witness ==
    /\ calls # <<>>
    /\ calls[1].method = "createOrUpdateEntry"
    /\ calls[1].settled = "resolved"
    /\ DOMAIN calls[1].fields = {"slug", "title", "extra"}
    /\ Ops(1, "createEntry") # {}
    /\ \E item \in environment :
           item.id = calls[1].value.id /\ DOMAIN item.fields = {"slug", "title"}

\* The stored en-US value of a field, undefined when the entry lacks it.
StoredValue(existing, k) ==
    IF k \in DOMAIN existing THEN existing[k].en_US ELSE Undefined

\* A field that is supplied, is in the schema, and whose en-US value is not
\* the stored one.
Differs(existing, supplied, k) ==
    /\ k \in DOMAIN supplied
    /\ k \in {"slug", "title"}
    /\ supplied[k].en_US # StoredValue(existing, k)

\* C23: when an entry is found, a field of it is overwritten only if it is
\* supplied, in the schema and its en-US value differs from the stored one;
\* every other stored field is left as it is; and when no supplied field
\* differs, neither update nor publish is requested.
C23_OnlyChangedFields ==
    \A c \in CreateOrUpdates :
        \A j \in Ops(c, "getEntries") :
            requests[j].id # 0 =>
                LET existing == requests[j].fields
                    supplied == calls[c].fields
                    differing == {k \in DOMAIN supplied :
                                     Differs(existing, supplied, k)}
                    expected == [k \in (DOMAIN existing) \cup differing |->
                                    IF k \in differing THEN supplied[k]
                                    ELSE existing[k]]
                IN  /\ \A i \in Ops(c, "update") :
                           /\ requests[i].fields = expected
                           /\ requests[i].ok =>
                                  \E item \in environment :
                                      /\ item.id = requests[j].id
                                      /\ item.fields = expected
                    /\ differing = {} =>
                           /\ Ops(c, "update") = {}
                           /\ Ops(c, "publish") = {}
                           /\ \E item \in environment :
                                  /\ item.id = requests[j].id
                                  /\ item.fields = existing
                    /\ (differing # {} /\ calls[c].settled # "pending") =>
                           Ops(c, "update") # {}

C23_Witness ==
    /\ calls # <<>>
    /\ calls[1].method = "createOrUpdateEntry"
    /\ calls[1].settled = "resolved"
    /\ calls[1].fields = [slug |-> Field("a"), title |-> Field("y"), extra |-> Field("x")]
    /\ \E i \in Ops(1, "update") : requests[i].ok
    /\ \E j \in Ops(1, "getEntries") :
           requests[j].fields = [slug |-> Field("a"), title |-> Field("x")]
    /\ calls[1].value.fields = [slug |-> Field("a"), title |-> Field("y")]

Deletes == {c \in DOMAIN calls : calls[c].method \in {"deleteEntry", "deleteAsset"}}

\* C24: deleteEntry and deleteAsset fetch the item, then attempt unpublish,
\* then delete, in that order: delete is requested only after the unpublish
\* attempt has settled, a failed unpublish is ignored and delete is still
\* requested, a failed fetch prevents both, and a failed delete rejects the
\* call.
C24_FetchUnpublishDelete ==
    \A c \in Deletes :
        /\ \A i \in Ops(c, "delete") :
               \E j \in Ops(c, "unpublish") : j < i
        /\ \A j \in Ops(c, "unpublish") :
               \E g \in Ops(c, "get") : g < j /\ requests[g].ok
        /\ \A g \in Ops(c, "get") :
               ~requests[g].ok =>
                   /\ Ops(c, "unpublish") = {}
                   /\ Ops(c, "delete") = {}
                   /\ calls[c].settled = "rejected"
        /\ (calls[c].settled # "pending" /\ Ops(c, "unpublish") # {}) =>
               Ops(c, "delete") # {}
        /\ \A i \in Ops(c, "delete") :
               IF requests[i].ok
               THEN /\ calls[c].settled = "resolved"
                    /\ \A item \in environment :
                           item.id = calls[c].id =>
                               item.kind # KindOf(calls[c].method)
               ELSE calls[c].settled = "rejected"
        /\ \A op \in {"get", "unpublish", "delete"} :
               Cardinality(Ops(c, op)) <= 1

C24_Witness ==
    /\ calls # <<>>
    /\ calls[1].method = "deleteEntry"
    /\ calls[1].settled = "resolved"
    /\ \E j \in Ops(1, "unpublish") : ~requests[j].ok
    /\ \E i \in Ops(1, "delete") : requests[i].ok
    /\ environment = OtherItems

Writes(c) == Ops(c, "createEntry") \cup Ops(c, "update") \cup Ops(c, "publish")

\* C26: whenever a call of createOrUpdateEntry resolves, the returned entry
\* is the backend's created or updated entry, published when publish is
\* true and a write was made, and every failure of create, update or
\* publish rejects the call.
C26_ResolvesWithBackendEntry ==
    \A c \in CreateOrUpdates :
        /\ (\E i \in Writes(c) : ~requests[i].ok) =>
               calls[c].settled \in {"pending", "rejected"}
        /\ calls[c].settled = "resolved" =>
               /\ calls[c].value \in environment
               /\ (calls[c].publish /\ Writes(c) # {}) => calls[c].value.published

\* C27: when all of the concurrent calls of createOrUpdateEntry for one
\* unique value have completed, against a backend that held no matching
\* entry, at most one entry with that unique value exists.
C27_UniqueUnderInterleaving ==
    (\A c \in DOMAIN calls : calls[c].settled # "pending") =>
        Cardinality(MatchingIds) <= 1

====
